---- MODULE Spec2Model ----
(***************************************************************************)
(* A model of inha_dowloader.py: the download loop of                      *)
(* INHAAlbumDownloader.dowload, the range parser RangeList, the page       *)
(* parser parse_album_page and the command line driver main.               *)
(*                                                                         *)
(* Strings whose characters the code looks at (identifiers, range          *)
(* expressions, titles) are tuples of one-character strings.               *)
(***************************************************************************)
EXTENDS Integers, Sequences, FiniteSets, TLC

(***************************************************************************)
(* Bounds of the model.                                                    *)
(***************************************************************************)
\* longest range expression given to -i, in characters
MaxLen == 5
\* longest album index page, in fragments
MaxFrags == 3
\* longest album (number of image identifiers) of the download runs
MaxAlbum == 2
\* most blocks urlretrieve reads for one image
MaxBlocks == 1
\* number of runs of dowload against the same output directory
MaxRuns == 2

(***************************************************************************)
(* Identifiers and file names.                                             *)
(***************************************************************************)
\* The identifiers an album is drawn from, of the form <name>_<number>:
\* two that share a numeric suffix, and one with an underscore in its name.
Identifiers ==
    { <<"a", "_", "1">>, <<"b", "_", "1">>, <<"a", "_", "b", "_", "2">> }

Albums == UNION { [1..n -> Identifiers] : n \in 0..MaxAlbum }

\* str.rsplit("_", 1): the position of the last underscore
LastUnderscore(i) ==
    CHOOSE k \in 1..Len(i) : i[k] = "_" /\ \A j \in (k+1)..Len(i) : i[j] # "_"

\* name, num = i.rsplit("_", 1)
Num(i) == SubSeq(i, LastUnderscore(i) + 1, Len(i))

\* outfile = outdir / f"{num}.jpg"
OutFile(i) == Num(i) \o <<".jpg">>

\* INHAAlbumDownloader.image_url: BASE_URL with iiif and image filled in
image_url(ns, i) == <<"BASE_URL?IIIF=", ns, "/iiif/", i, ".tif/full/full/0/native.jpg">>

(***************************************************************************)
(* State of the download runs.                                             *)
(***************************************************************************)
VARIABLES
    image_names,    \* self.image_names
    iiif,           \* self.iiif
    only,           \* the argument `only` of dowload: None or a set
    outdir_exists,  \* whether the output directory exists
    disk,           \* names of the files in the output directory
    truncated,      \* the files of disk that a fetch left incomplete
    dl_context,     \* the context passed to the callbacks
    count,          \* position of the loop in image_names, from 1
    pc,             \* where dowload is
    fetch,          \* the urlretrieve call in progress
    calls,          \* the calls of the run so far: hooks and urlretrieve
    exc,            \* the exception that left dowload, if any
    run,            \* number of the run
    previous        \* the run before this one: its argument and its end

dlvars == << image_names, iiif, only, outdir_exists, disk, truncated,
             dl_context, count, pc, fetch, calls, exc, run, previous >>

(***************************************************************************)
(* State of the constructor run on one page, and of main.                  *)
(***************************************************************************)
VARIABLES
    page,       \* the album's index page
    results,    \* results of parse_album_page: name and group, in order
    rule,       \* position of the loop of line 73 in PATTERNS
    ppc,        \* where the constructor is
    perr,       \* the name ParseError carries
    title       \* self.title

pagevars == << page, results, rule, ppc, perr >>

VARIABLES
    images_arg,   \* the -i option of the command line: given or not, its text
    rl_terms,     \* RangeList: the terms of page_ranges still to be read
    rl_only,      \* RangeList: the set `only` of __init__
    args_images,  \* args.images, the elements of the RangeList
    mpc,          \* where main is
    merr          \* the error main ended with

mainvars == << images_arg, rl_terms, rl_only, args_images, mpc, merr >>

\* what dowload leaves alone
notdl == << pagevars, mainvars, title >>

\* what the constructor leaves alone
notpage ==
    << mainvars, only, outdir_exists, disk, truncated, dl_context, count, pc,
       fetch, calls, exc, run, previous >>

\* what main leaves alone
notmain ==
    << pagevars, outdir_exists, disk, truncated, dl_context, count, fetch,
       calls, exc, run, previous >>

NoneOnly == [none |-> TRUE, items |-> {}]
SetOnly(s) == [none |-> FALSE, items |-> s]
OnlyArgs == {NoneOnly} \cup { SetOnly(s) : s \in SUBSET Identifiers }

\* Python truth value of `only` (None and the empty set are false)
Truthy(o) == ~o.none /\ o.items # {}

image_count == Len(image_names)

\* the block_size urllib's urlretrieve passes to its report hook (1024*8)
BlockSize == 8192

NoFetch == [active |-> FALSE, opened |-> FALSE, blocknum |-> 0]

NoContext ==
    [ current_image |-> <<>>, processed_images |-> 0, transferred |-> 0,
      total_transferred |-> 0, total_images |-> 0, current_image_url |-> <<>> ]

\* a context that counts against the whole album, filter or not
NewContextWholeAlbum(o) ==
    [ current_image |-> <<>>, processed_images |-> 0, transferred |-> 0,
      total_transferred |-> 0, total_images |-> image_count,
      current_image_url |-> <<>> ]

\* dl_context = {...}: lines 126-132
NewContext(o) ==
    [ current_image |-> <<>>, processed_images |-> 0, transferred |-> 0,
      total_transferred |-> 0,
      total_images |-> IF Truthy(o) THEN Cardinality(o.items) ELSE image_count,
      current_image_url |-> <<>> ]

\* an update that takes both byte counters back to 0
ItemContextResetAll(ctx, i) ==
    [ ctx EXCEPT !.current_image = OutFile(i), !.transferred = 0,
                 !.total_transferred = 0,
                 !.current_image_url = image_url(iiif, i) ]

\* dl_context.update(current_image=..., transferred=0, current_image_url=...)
ItemContext(ctx, i) ==
    [ ctx EXCEPT !.current_image = OutFile(i), !.transferred = 0,
                 !.current_image_url = image_url(iiif, i) ]

\* one entry of calls
Call(hook, i, ctx, skipped, cancelled) ==
    [ hook |-> hook, image |-> i, pos |-> count, context |-> ctx,
      skipped |-> skipped, cancelled |-> cancelled ]

\* a dowload that never looks for the output file
ExistsNever(f) == FALSE

\* outfile.exists(), line 159
Exists(f) == f \in disk

\* a cancellation that leaves the file where it is
UnlinkNothing(files, f) == files

\* outfile.unlink() with FileNotFoundError passed over, lines 171-174
Unlink(files, f) == files \ {f}

\* a loop that forgets the filter
FilteredOutNever(o, i) == FALSE

\* if only and i not in only
FilteredOut(o, i) == Truthy(o) /\ i \notin o.items

\* assert only.issubset(self.image_names)
AssertOutcome(o) ==
    IF o.none THEN "AttributeError"
    ELSE IF o.items \subseteq { image_names[k] : k \in 1..Len(image_names) }
         THEN "ok" ELSE "AssertionError"

\* no run came before
NoRun == [only |-> NoneOnly, end |-> "none"]

DlInit ==
    /\ image_names \in Albums
    /\ iiif = <<"/", "1", "a">>
    /\ only \in OnlyArgs
    /\ outdir_exists \in BOOLEAN
    /\ disk = {}
    /\ truncated = {}
    /\ dl_context = NoContext
    /\ count = 0
    /\ pc = "call"
    /\ fetch = NoFetch
    /\ calls = <<>>
    /\ exc = "none"
    /\ run = 1
    /\ previous = NoRun

(***************************************************************************)
(* INHAAlbumDownloader.dowload, lines 112-177.                             *)
(***************************************************************************)
Last(s) == s[Len(s)]

\* the run was ended by the except KeyboardInterrupt branch
Cancelled == calls # <<>> /\ Last(calls).cancelled

\* how a run that is over ended
RunEnd == IF pc = "raised" THEN exc ELSE IF Cancelled THEN "cancelled" ELSE "completed"

\* line 123 fails: only is None (AttributeError) or no subset (AssertionError)
DowloadRaise ==
    /\ pc = "call"
    /\ AssertOutcome(only) # "ok"
    /\ pc' = "raised"
    /\ exc' = AssertOutcome(only)
    /\ UNCHANGED << image_names, iiif, only, outdir_exists, disk, truncated,
                    dl_context, count, fetch, calls, run, previous >>
    /\ UNCHANGED notdl

\* lines 123-141, the directory exists or mkdir succeeds
DowloadEnter ==
    /\ pc = "call"
    /\ AssertOutcome(only) = "ok"
    /\ dl_context' = NewContext(only)
    /\ outdir_exists' = TRUE
    /\ count' = 1
    /\ pc' = "loop"
    /\ UNCHANGED << image_names, iiif, only, disk, truncated, fetch, calls,
                    exc, run, previous >>
    /\ UNCHANGED notdl

\* a dowload that creates the directory only after the first on_start
DowloadMkdirFailsLate ==
    /\ pc = "call"
    /\ AssertOutcome(only) = "ok"
    /\ ~outdir_exists
    /\ image_names # <<>>
    /\ dl_context' = ItemContext(NewContext(only), image_names[1])
    /\ calls' = << Call("on_start", image_names[1], dl_context', FALSE, FALSE) >>
    /\ pc' = "raised"
    /\ exc' = "OSError"
    /\ UNCHANGED << image_names, iiif, only, outdir_exists, disk, truncated,
                    count, fetch, run, previous >>
    /\ UNCHANGED notdl

\* lines 123-139, outdir.mkdir() raises
DowloadMkdirFails ==
    /\ pc = "call"
    /\ AssertOutcome(only) = "ok"
    /\ ~outdir_exists
    /\ dl_context' = NewContext(only)
    /\ pc' = "raised"
    /\ exc' = "OSError"
    /\ UNCHANGED << image_names, iiif, only, outdir_exists, disk, truncated,
                    count, fetch, calls, run, previous >>
    /\ UNCHANGED notdl

\* lines 142-156: an image that was not asked for
LoopFiltered ==
    /\ pc = "loop"
    /\ count <= Len(image_names)
    /\ LET i == image_names[count] IN
        /\ FilteredOut(only, i)
        /\ dl_context' = ItemContext(dl_context, i)
    /\ count' = count + 1
    /\ UNCHANGED << image_names, iiif, only, outdir_exists, disk, truncated,
                    pc, fetch, calls, exc, run, previous >>
    /\ UNCHANGED notdl

\* lines 142-163: the output file exists
LoopSkipExisting ==
    /\ pc = "loop"
    /\ count <= Len(image_names)
    /\ LET i == image_names[count]
           started == ItemContext(dl_context, i)
           ended == [started EXCEPT !.processed_images = @ + 1]
       IN
        /\ ~FilteredOut(only, i)
        /\ Exists(OutFile(i))
        /\ dl_context' = ended
        /\ calls' = calls \o << Call("on_start", i, started, FALSE, FALSE),
                                Call("on_completion", i, ended, TRUE, FALSE) >>
    /\ count' = count + 1
    /\ UNCHANGED << image_names, iiif, only, outdir_exists, disk, truncated,
                    pc, fetch, exc, run, previous >>
    /\ UNCHANGED notdl

\* a loop that enters urlretrieve without calling on_start
LoopFetchUnannounced ==
    /\ pc = "loop"
    /\ count <= Len(image_names)
    /\ LET i == image_names[count]
           started == ItemContext(dl_context, i)
       IN
        /\ ~FilteredOut(only, i)
        /\ ~Exists(OutFile(i))
        /\ dl_context' = started
        /\ calls' = Append(calls, Call("urlretrieve", i, started, FALSE, FALSE))
    /\ fetch' = [active |-> TRUE, opened |-> FALSE, blocknum |-> 0]
    /\ pc' = "fetch"
    /\ UNCHANGED << image_names, iiif, only, outdir_exists, disk, truncated,
                    count, exc, run, previous >>
    /\ UNCHANGED notdl

\* lines 142-167: on_start, then urlretrieve is entered
LoopFetch ==
    /\ pc = "loop"
    /\ count <= Len(image_names)
    /\ LET i == image_names[count]
           started == ItemContext(dl_context, i)
       IN
        /\ ~FilteredOut(only, i)
        /\ ~Exists(OutFile(i))
        /\ dl_context' = started
        /\ calls' = calls \o << Call("on_start", i, started, FALSE, FALSE),
                                Call("urlretrieve", i, started, FALSE, FALSE) >>
    /\ fetch' = [active |-> TRUE, opened |-> FALSE, blocknum |-> 0]
    /\ pc' = "fetch"
    /\ UNCHANGED << image_names, iiif, only, outdir_exists, disk, truncated,
                    count, exc, run, previous >>
    /\ UNCHANGED notdl

\* line 142: image_names is exhausted
LoopExit ==
    /\ pc = "loop"
    /\ count > Len(image_names)
    /\ pc' = "returned"
    /\ UNCHANGED << image_names, iiif, only, outdir_exists, disk, truncated,
                    dl_context, count, fetch, calls, exc, run, previous >>
    /\ UNCHANGED notdl

\* _urlretrieve_cb, lines 103-110: the report hook of urlretrieve, which
\* passes the number of the block as the first argument
urlretrieve_cb(ctx, blocknum, block_size) ==
    LET in_bytes == blocknum * block_size IN
    [ctx EXCEPT !.transferred = @ + in_bytes, !.total_transferred = @ + in_bytes]

\* urlretrieve opens the URL, creates the output file, reports block 0
FetchOpen ==
    /\ pc = "fetch"
    /\ ~fetch.opened
    /\ LET i == image_names[count]
           ctx == urlretrieve_cb(dl_context, 0, BlockSize)
       IN
        /\ disk' = disk \cup {OutFile(i)}
        /\ truncated' = truncated \cup {OutFile(i)}
        /\ dl_context' = ctx
        /\ calls' = Append(calls, Call("on_progress", i, ctx, FALSE, FALSE))
    /\ fetch' = [fetch EXCEPT !.opened = TRUE]
    /\ UNCHANGED << image_names, iiif, only, outdir_exists, count, pc, exc,
                    run, previous >>
    /\ UNCHANGED notdl

\* urlretrieve reads one block, writes it and reports it
FetchBlock ==
    /\ pc = "fetch"
    /\ fetch.opened
    /\ fetch.blocknum < MaxBlocks
    /\ LET i == image_names[count]
           ctx == urlretrieve_cb(dl_context, fetch.blocknum + 1, BlockSize)
       IN
        /\ dl_context' = ctx
        /\ calls' = Append(calls, Call("on_progress", i, ctx, FALSE, FALSE))
    /\ fetch' = [fetch EXCEPT !.blocknum = @ + 1]
    /\ UNCHANGED << image_names, iiif, only, outdir_exists, disk, truncated,
                    count, pc, exc, run, previous >>
    /\ UNCHANGED notdl

\* lines 167-168 and 177: urlretrieve returns, the file is whole
FetchDone ==
    /\ pc = "fetch"
    /\ fetch.opened
    /\ LET i == image_names[count]
           ended == [dl_context EXCEPT !.processed_images = @ + 1]
       IN
        /\ truncated' = truncated \ {OutFile(i)}
        /\ dl_context' = ended
        /\ calls' = Append(calls, Call("on_completion", i, ended, FALSE, FALSE))
    /\ fetch' = NoFetch
    /\ count' = count + 1
    /\ pc' = "loop"
    /\ UNCHANGED << image_names, iiif, only, outdir_exists, disk, exc, run,
                    previous >>
    /\ UNCHANGED notdl

\* a loop that passes over a fetch that failed and goes on
FetchOpenFailsSwallowed ==
    /\ pc = "fetch"
    /\ ~fetch.opened
    /\ pc' = "loop"
    /\ count' = count + 1
    /\ fetch' = NoFetch
    /\ UNCHANGED << image_names, iiif, only, outdir_exists, disk, truncated,
                    dl_context, calls, exc, run, previous >>
    /\ UNCHANGED notdl

\* urlretrieve raises before the output file is created (the URL cannot be
\* opened): nothing catches it, line 169
FetchOpenFails ==
    /\ pc = "fetch"
    /\ ~fetch.opened
    /\ pc' = "raised"
    /\ exc' = "URLError"
    /\ fetch' = NoFetch
    /\ UNCHANGED << image_names, iiif, only, outdir_exists, disk, truncated,
                    dl_context, count, calls, run, previous >>
    /\ UNCHANGED notdl

\* urlretrieve raises while reading: the file stays as far as it was written
FetchReadFails ==
    /\ pc = "fetch"
    /\ fetch.opened
    /\ pc' = "raised"
    /\ exc' = "URLError"
    /\ fetch' = NoFetch
    /\ UNCHANGED << image_names, iiif, only, outdir_exists, disk, truncated,
                    dl_context, count, calls, run, previous >>
    /\ UNCHANGED notdl

\* lines 169-176: KeyboardInterrupt inside the try
FetchInterrupt ==
    /\ pc = "fetch"
    /\ LET i == image_names[count] IN
        /\ disk' = Unlink(disk, OutFile(i))
        /\ truncated' = Unlink(truncated, OutFile(i))
        /\ calls' = Append(calls, Call("on_completion", i, dl_context, FALSE, TRUE))
    /\ fetch' = NoFetch
    /\ pc' = "returned"
    /\ UNCHANGED << image_names, iiif, only, outdir_exists, dl_context, count,
                    exc, run, previous >>
    /\ UNCHANGED notdl

\* the program is run again on the same album and output directory
NextRun ==
    /\ pc \in {"returned", "raised"}
    /\ run < MaxRuns
    /\ previous' = [only |-> only, end |-> RunEnd]
    /\ run' = run + 1
    /\ only' \in OnlyArgs
    /\ dl_context' = NoContext
    /\ count' = 0
    /\ pc' = "call"
    /\ fetch' = NoFetch
    /\ calls' = <<>>
    /\ exc' = "none"
    /\ UNCHANGED << image_names, iiif, outdir_exists, disk, truncated >>
    /\ UNCHANGED notdl

DlNext ==
    \/ DowloadRaise \/ DowloadEnter \/ DowloadMkdirFails
    \/ LoopFiltered \/ LoopSkipExisting \/ LoopFetch \/ LoopExit
    \/ FetchOpen \/ FetchBlock \/ FetchDone
    \/ FetchOpenFails \/ FetchReadFails \/ FetchInterrupt
    \/ NextRun

(***************************************************************************)
(* RangeList, lines 180-196: the characters of a range expression.         *)
(***************************************************************************)
Digits == <<"0", "1", "2", "3">>
DigitChars == { Digits[k] : k \in 1..Len(Digits) }
Chars == DigitChars \cup {"-", ","}

\* the range expressions the command line may carry
Expressions == UNION { [1..n -> Chars] : n \in 0..MaxLen }

\* first position of character c in s, 0 when there is none
Find(s, c) ==
    IF \E k \in 1..Len(s) : s[k] = c
    THEN CHOOSE k \in 1..Len(s) : s[k] = c /\ \A j \in 1..(k-1) : s[j] # c
    ELSE 0

\* a split that drops empty terms, as str.split() without a separator does
RECURSIVE SplitDropEmpty(_)
SplitDropEmpty(s) ==
    LET k == Find(s, ",") IN
    IF s = <<>> THEN <<>>
    ELSE IF k = 0 THEN << s >>
    ELSE (IF k = 1 THEN <<>> ELSE << SubSeq(s, 1, k - 1) >>)
         \o SplitDropEmpty(SubSeq(s, k + 1, Len(s)))

\* str.split(","): never empty, "" gives [""]
RECURSIVE Split(_)
Split(s) ==
    LET k == Find(s, ",") IN
    IF k = 0 THEN << s >>
    ELSE << SubSeq(s, 1, k - 1) >> \o Split(SubSeq(s, k + 1, Len(s)))

\* str.partition("-"): start, ok, end
Partition(t) ==
    LET k == Find(t, "-") IN
    IF k = 0 THEN [start |-> t, ok |-> FALSE, end |-> <<>>]
    ELSE [start |-> SubSeq(t, 1, k - 1), ok |-> TRUE, end |-> SubSeq(t, k + 1, Len(t))]

IsDigits(s) == Len(s) > 0 /\ \A k \in 1..Len(s) : s[k] \in DigitChars

\* whether int(s) returns: digits, with a sign in front or not
IntOk(s) == IsDigits(s) \/ (Len(s) >= 2 /\ s[1] = "-" /\ IsDigits(Tail(s)))

DigitValue(c) == (CHOOSE k \in 1..Len(Digits) : Digits[k] = c) - 1

RECURSIVE Natural(_)
Natural(s) ==
    IF s = <<>> THEN 0
    ELSE 10 * Natural(SubSeq(s, 1, Len(s) - 1)) + DigitValue(s[Len(s)])

\* int(s), for the s that IntOk accepts
int(s) == IF s[1] = "-" THEN 0 - Natural(Tail(s)) ELSE Natural(s)

\* the ValueError of int() on the text s
InvalidLiteral(s) ==
    [kind |-> "invalid literal", term |-> s, start |-> 0, end |-> 0,
     max |-> 0, count |-> 0]

\* the ValueError of line 192
InvalidRange(t, start, end) ==
    [kind |-> "invalid range", term |-> t, start |-> start, end |-> end,
     max |-> 0, count |-> 0]

NoError ==
    [kind |-> "none", term |-> <<>>, start |-> 0, end |-> 0, max |-> 0, count |-> 0]

\* an exception or exit of main that carries no range
Error(kind, term) ==
    [kind |-> kind, term |-> term, start |-> 0, end |-> 0, max |-> 0, count |-> 0]

\* the message of line 212: the largest index asked for and the image count
BoundsError(max, n) ==
    [kind |-> "bounds", term |-> <<>>, start |-> 0, end |-> 0, max |-> max, count |-> n]

\* a range check that lets start = end through
BadRangeStrict(start, end) == start > end

\* start >= end, line 191
BadRange(start, end) == start >= end

\* a range that leaves its upper bound out
RangeHalfOpen(start, end) == start..(end - 1)

\* range(start, end + 1), line 193
Range(start, end) == start..end

\* one turn of the loop of lines 185-195 on term t: the set `only` after
\* it, or the ValueError that leaves __init__
RangeTerm(set, t) ==
    LET p == Partition(t) IN
    IF ~IntOk(p.start)
    THEN [ok |-> FALSE, only |-> set, error |-> InvalidLiteral(p.start)]
    ELSE IF ~p.ok
    THEN [ok |-> TRUE, only |-> set \cup {int(p.start)}, error |-> NoError]
    ELSE IF ~IntOk(p.end)
    THEN [ok |-> FALSE, only |-> set, error |-> InvalidLiteral(p.end)]
    ELSE IF BadRange(int(p.start), int(p.end))
    THEN [ok |-> FALSE, only |-> set,
          error |-> InvalidRange(t, int(p.start), int(p.end))]
    ELSE [ok |-> TRUE, only |-> set \cup Range(int(p.start), int(p.end)),
          error |-> NoError]

\* max() of a non-empty set of integers; the candidates are tried from the
\* largest down
Max(S) ==
    LET N == { 0 - x : x \in S } IN
    0 - (CHOOSE x \in N : \A y \in N : x <= y)

(***************************************************************************)
(* parse_album_page and __init__, lines 62-92.  An index page is a         *)
(* sequence of fragments, each of them one place where a pattern of        *)
(* PATTERNS may match: `var images = ...;`, `'server': '/medias...',`,     *)
(* `<title>...</title>`, or other text.                                    *)
(***************************************************************************)
\* the names of PATTERNS, in the order of the dict
PatternNames == <<"image_list", "iiif", "title">>

Fragment(kind, text, list, evaluates) ==
    [kind |-> kind, text |-> text, list |-> list, evaluates |-> evaluates]

\* the list literals a page may carry, and one that literal_eval refuses
PageAlbums ==
    { <<>>, << <<"a", "_", "1">> >>,
      << <<"b", "_", "1">>, <<"a", "_", "b", "_", "2">>, <<"a", "_", "1">> >> }

Fragments ==
    { Fragment("images", <<>>, a, TRUE) : a \in PageAlbums }
    \cup { Fragment("images", <<>>, <<>>, FALSE) }
    \cup { Fragment("server", t, <<>>, TRUE) : t \in { <<"/", "1", "a">>, <<"/", "Z">> } }
    \cup { Fragment("title", t, <<>>, TRUE) :
            t \in { <<"T", "/", "t", "/">>, <<"\n", "T", " ", "\n">>, <<"T", "\n", "t">> } }
    \cup { Fragment("text", <<>>, <<>>, TRUE) }

Pages == UNION { [1..n -> Fragments] : n \in 0..MaxFrags }

IsSpace(c) == c \in {" ", "\n"}

\* number of leading characters of s for which P holds, P given as a set
LeadingIn(s, set) ==
    IF \E k \in 1..Len(s) : s[k] \notin set
    THEN (CHOOSE k \in 1..Len(s) : s[k] \notin set /\ \A j \in 1..(k-1) : s[j] \in set) - 1
    ELSE Len(s)

\* the text after the leading white space, which \s* takes
AfterSpace(s) == SubSeq(s, LeadingIn(s, {" ", "\n"}) + 1, Len(s))

\* the longest start of s without a line break, which (.*) takes
UpToLineBreak(s) ==
    IF \E k \in 1..Len(s) : s[k] = "\n"
    THEN SubSeq(s, 1, (CHOOSE k \in 1..Len(s) : s[k] = "\n" /\ \A j \in 1..(k-1) : s[j] # "\n") - 1)
    ELSE s

\* <title>\s*(.*)\s*</title> on the text between the tags: what follows
\* group 1 must be white space
TitleMatches(s) ==
    LET rest == AfterSpace(s)
        tail == SubSeq(rest, Len(UpToLineBreak(rest)) + 1, Len(rest))
    IN \A k \in 1..Len(tail) : IsSpace(tail[k])

TitleGroup(s) == UpToLineBreak(AfterSpace(s))

\* [a-f/0-9-]+ on the path after /medias
ServerMatches(s) ==
    /\ Len(s) > 0
    /\ \A k \in 1..Len(s) :
        s[k] \in {"a", "b", "c", "d", "e", "f", "/", "-",
                  "0", "1", "2", "3", "4", "5", "6", "7", "8", "9"}

\* whether the pattern called name matches at fragment f
Matches(name, f) ==
    CASE name = "image_list" -> f.kind = "images"
      [] name = "iiif" -> f.kind = "server" /\ ServerMatches(f.text)
      [] name = "title" -> f.kind = "title" /\ TitleMatches(f.text)

\* match.group(1)
Group(name, f) ==
    IF name = "title" THEN [f EXCEPT !.text = TitleGroup(f.text)] ELSE f

\* pattern.search(page) finds a match, line 74
Found(name, pg) == \E k \in 1..Len(pg) : Matches(name, pg[k])

\* the leftmost match, lines 74 and 79
Search(name, pg) ==
    LET k == CHOOSE k \in 1..Len(pg) :
                Matches(name, pg[k]) /\ \A j \in 1..(k-1) : ~Matches(name, pg[j])
    IN Group(name, pg[k])

\* lines 72-80 from the pattern at position n on, res being results so far
RECURSIVE ParseFrom(_, _, _)
ParseFrom(n, pg, res) ==
    IF n > Len(PatternNames) THEN [ok |-> TRUE, results |-> res, missing |-> "none"]
    ELSE IF ~Found(PatternNames[n], pg)
    THEN [ok |-> FALSE, results |-> <<>>, missing |-> PatternNames[n]]
    ELSE ParseFrom(n + 1, pg,
            Append(res, [name |-> PatternNames[n], group |-> Search(PatternNames[n], pg)]))

parse_album_page(pg) == ParseFrom(1, pg, <<>>)

\* results[name]
Result(res, name) == (CHOOSE k \in 1..Len(res) : res[k].name = name)

\* a replacement that stops after the first "/"
ReplaceFirstSlash(s) ==
    [k \in 1..Len(s) |->
        IF s[k] = "/" /\ \A j \in 1..(k - 1) : s[j] # "/" THEN "_" ELSE s[k]]

\* str.replace("/", "_"), line 90
ReplaceSlash(s) == [k \in 1..Len(s) |-> IF s[k] = "/" THEN "_" ELSE s[k]]

\* __init__, lines 84-92: the fields of the downloader for a page, or the
\* exception that leaves the constructor
NewDownloader(pg) ==
    LET parsed == parse_album_page(pg) IN
    IF ~parsed.ok
    THEN [raised |-> "ParseError", missing |-> parsed.missing,
          image_names |-> <<>>, title |-> <<>>, iiif |-> <<>>]
    ELSE LET res == parsed.results
             images == res[Result(res, "image_list")].group
         IN IF ~images.evaluates
            THEN [raised |-> "SyntaxError", missing |-> "none",
                  image_names |-> <<>>, title |-> <<>>, iiif |-> <<>>]
            ELSE [raised |-> "none", missing |-> "none",
                  image_names |-> images.list,
                  title |-> ReplaceSlash(res[Result(res, "title")].group.text),
                  iiif |-> res[Result(res, "iiif")].group.text]

(***************************************************************************)
(* The constructor run step by step on one page, lines 69-92.              *)
(***************************************************************************)
PageIdle ==
    /\ page = <<>>
    /\ results = <<>>
    /\ rule = 0
    /\ ppc = "idle"
    /\ perr = "none"

PageInit ==
    /\ page \in Pages
    /\ results = <<>>
    /\ rule = 1
    /\ ppc = "parse_album_page"
    /\ perr = "none"

\* lines 73-79: the pattern matches
ParseMatch ==
    /\ ppc = "parse_album_page"
    /\ rule <= Len(PatternNames)
    /\ Found(PatternNames[rule], page)
    /\ results' = Append(results, [name |-> PatternNames[rule],
                                   group |-> Search(PatternNames[rule], page)])
    /\ rule' = rule + 1
    /\ UNCHANGED << page, ppc, perr, image_names, iiif, title >>
    /\ UNCHANGED notpage

\* a loop that goes on to the next pattern when one does not match
ParseSkip ==
    /\ ppc = "parse_album_page"
    /\ rule <= Len(PatternNames)
    /\ ~Found(PatternNames[rule], page)
    /\ rule' = rule + 1
    /\ UNCHANGED << page, results, ppc, perr, image_names, iiif, title >>
    /\ UNCHANGED notpage

\* lines 73-78: the pattern does not match, ParseError leaves the constructor
ParseRaise ==
    /\ ppc = "parse_album_page"
    /\ rule <= Len(PatternNames)
    /\ ~Found(PatternNames[rule], page)
    /\ results' = <<>>
    /\ ppc' = "ParseError"
    /\ perr' = PatternNames[rule]
    /\ UNCHANGED << page, rule, image_names, iiif, title >>
    /\ UNCHANGED notpage

\* line 80
ParseReturn ==
    /\ ppc = "parse_album_page"
    /\ rule > Len(PatternNames)
    /\ ppc' = "parsed"
    /\ UNCHANGED << page, results, rule, perr, image_names, iiif, title >>
    /\ UNCHANGED notpage

\* lines 88-92
InitFields ==
    /\ ppc = "parsed"
    /\ results[Result(results, "image_list")].group.evaluates
    /\ image_names' = results[Result(results, "image_list")].group.list
    /\ title' = ReplaceSlash(results[Result(results, "title")].group.text)
    /\ iiif' = results[Result(results, "iiif")].group.text
    /\ ppc' = "constructed"
    /\ UNCHANGED << page, results, rule, perr >>
    /\ UNCHANGED notpage

\* line 88: literal_eval refuses the text of the list
InitLiteralRaises ==
    /\ ppc = "parsed"
    /\ ~results[Result(results, "image_list")].group.evaluates
    /\ ppc' = "SyntaxError"
    /\ UNCHANGED << page, results, rule, perr, image_names, iiif, title >>
    /\ UNCHANGED notpage

PageNext ==
    \/ ParseMatch \/ ParseRaise \/ ParseReturn
    \/ InitFields \/ InitLiteralRaises

(***************************************************************************)
(* main, lines 199-215.                                                    *)
(***************************************************************************)
NoArg == [given |-> FALSE, text |-> <<>>]
Arg(text) == [given |-> TRUE, text |-> text]

MainIdle ==
    /\ images_arg = NoArg
    /\ rl_terms = <<>>
    /\ rl_only = {}
    /\ args_images = {}
    /\ mpc = "idle"
    /\ merr = NoError

MainInit ==
    /\ images_arg \in {NoArg} \cup { Arg(e) : e \in Expressions }
    /\ rl_terms = <<>>
    /\ rl_only = {}
    /\ args_images = {}
    /\ mpc = "parse_args"
    /\ merr = NoError

\* the state of a downloader that is not built yet
DlIdle ==
    /\ image_names = <<>>
    /\ iiif = <<>>
    /\ only = NoneOnly
    /\ outdir_exists = FALSE
    /\ disk = {}
    /\ truncated = {}
    /\ dl_context = NoContext
    /\ count = 0
    /\ pc = "idle"
    /\ fetch = NoFetch
    /\ calls = <<>>
    /\ exc = "none"
    /\ run = 1
    /\ previous = NoRun

\* line 206: -i is not given, args.images is the default []
ArgDefault ==
    /\ mpc = "parse_args"
    /\ ~images_arg.given
    /\ args_images' = {}
    /\ mpc' = "parsed"
    /\ UNCHANGED << images_arg, rl_terms, rl_only, merr, image_names, iiif,
                    title, only, pc >>
    /\ UNCHANGED notmain

\* lines 182-185: argparse calls RangeList on the text of -i
RangeListEnter ==
    /\ mpc = "parse_args"
    /\ images_arg.given
    /\ rl_only' = {}
    /\ rl_terms' = Split(images_arg.text)
    /\ mpc' = "RangeList"
    /\ UNCHANGED << images_arg, args_images, merr, image_names, iiif, title,
                    only, pc >>
    /\ UNCHANGED notmain

\* lines 185-195: one term is read and added
RangeListTerm ==
    /\ mpc = "RangeList"
    /\ rl_terms # <<>>
    /\ RangeTerm(rl_only, Head(rl_terms)).ok
    /\ rl_only' = RangeTerm(rl_only, Head(rl_terms)).only
    /\ rl_terms' = Tail(rl_terms)
    /\ UNCHANGED << images_arg, args_images, mpc, merr, image_names, iiif,
                    title, only, pc >>
    /\ UNCHANGED notmain

\* lines 185-192: a term raises ValueError, argparse ends the program
RangeListRaise ==
    /\ mpc = "RangeList"
    /\ rl_terms # <<>>
    /\ ~RangeTerm(rl_only, Head(rl_terms)).ok
    /\ merr' = RangeTerm(rl_only, Head(rl_terms)).error
    /\ mpc' = "usage_error"
    /\ UNCHANGED << images_arg, rl_terms, rl_only, args_images, image_names,
                    iiif, title, only, pc >>
    /\ UNCHANGED notmain

\* line 196: the list is filled from the set
RangeListReturn ==
    /\ mpc = "RangeList"
    /\ rl_terms = <<>>
    /\ args_images' = rl_only
    /\ mpc' = "parsed"
    /\ UNCHANGED << images_arg, rl_terms, rl_only, merr, image_names, iiif,
                    title, only, pc >>
    /\ UNCHANGED notmain

\* what the constructor makes of the pages
Downloaders == { NewDownloader(pg) : pg \in Pages }

\* line 210: the album page is read and parsed
MainConstruct ==
    /\ mpc = "parsed"
    /\ \E d \in Downloaders :
        /\ d.raised = "none"
        /\ image_names' = d.image_names
        /\ title' = d.title
        /\ iiif' = d.iiif
    /\ mpc' = "constructed"
    /\ UNCHANGED << images_arg, rl_terms, rl_only, args_images, merr, only, pc >>
    /\ UNCHANGED notmain

\* line 210: the constructor raises
MainConstructRaises ==
    /\ mpc = "parsed"
    /\ \E d \in Downloaders :
        /\ d.raised # "none"
        /\ merr' = Error(d.raised, << d.missing >>)
    /\ mpc' = "construct_error"
    /\ UNCHANGED << images_arg, rl_terms, rl_only, args_images, image_names,
                    iiif, title, only, pc >>
    /\ UNCHANGED notmain

\* a bounds check that is off by one
OutOfBoundsLate(images, n) == images # {} /\ Max(images) > n + 1

\* args.images and max(args.images) > dl.image_count, line 211
OutOfBounds(images, n) == images # {} /\ Max(images) > n

\* whether names[j] is an element, for a Python index j
PyIndexOk(names, j) == 0 - Len(names) <= j /\ j < Len(names)

\* names[j] for a Python index j: from 0, negative ones count from the end
PyIndex(names, j) == IF j >= 0 THEN names[j + 1] ELSE names[Len(names) + j + 1]

\* line 212: psr.error ends the program
MainBoundsError ==
    /\ mpc = "constructed"
    /\ OutOfBounds(args_images, image_count)
    /\ merr' = BoundsError(Max(args_images), image_count)
    /\ mpc' = "bounds_error"
    /\ UNCHANGED << images_arg, rl_terms, rl_only, args_images, image_names,
                    iiif, title, only, pc >>
    /\ UNCHANGED notmain

\* line 214: an index outside image_names
MainIndexError ==
    /\ mpc = "constructed"
    /\ ~OutOfBounds(args_images, image_count)
    /\ \E i \in args_images : ~PyIndexOk(image_names, i - 1)
    /\ merr' = Error("IndexError", <<>>)
    /\ mpc' = "index_error"
    /\ UNCHANGED << images_arg, rl_terms, rl_only, args_images, image_names,
                    iiif, title, only, pc >>
    /\ UNCHANGED notmain

\* lines 214-215: the pages become names and dowload is called
MainDowload ==
    /\ mpc = "constructed"
    /\ ~OutOfBounds(args_images, image_count)
    /\ \A i \in args_images : PyIndexOk(image_names, i - 1)
    /\ only' = SetOnly({ PyIndex(image_names, i - 1) : i \in args_images })
    /\ pc' = "call"
    /\ mpc' = "dowload"
    /\ UNCHANGED << images_arg, rl_terms, rl_only, args_images, merr,
                    image_names, iiif, title >>
    /\ UNCHANGED notmain

MainNext ==
    \/ ArgDefault \/ RangeListEnter \/ RangeListTerm \/ RangeListRaise
    \/ RangeListReturn \/ MainConstruct \/ MainConstructRaises
    \/ MainBoundsError \/ MainIndexError \/ MainDowload

(***************************************************************************)
(* The specifications.                                                     *)
(***************************************************************************)
vars == << dlvars, pagevars, mainvars, title >>

\* the runs of dowload on a downloader that was built
Init == DlInit /\ PageIdle /\ MainIdle /\ title = <<"T">>
Next == DlNext
Spec == Init /\ [][Next]_vars

\* main from the command line to the call of dowload
InitMain == MainInit /\ DlIdle /\ PageIdle /\ title = <<>>
SpecMain == InitMain /\ [][MainNext]_vars

\* main from the command line through the one run of dowload it starts: the
\* filter main builds is a set of names of the album, so line 123 passes
ProgramNext ==
    \/ MainNext
    \/ DowloadEnter \/ DowloadMkdirFails
    \/ LoopFiltered \/ LoopSkipExisting \/ LoopFetch \/ LoopExit
    \/ FetchOpen \/ FetchBlock \/ FetchDone
    \/ FetchOpenFails \/ FetchReadFails \/ FetchInterrupt
SpecProgram == InitMain /\ [][ProgramNext]_vars

\* the constructor on one page
InitPage == PageInit /\ DlIdle /\ MainIdle /\ title = <<>>
SpecPage == InitPage /\ [][PageNext]_vars

(***************************************************************************)
(* Properties of the download runs.                                        *)
(***************************************************************************)
\* the entries of calls made by hook h
CallsOf(h) == { k \in 1..Len(calls) : calls[k].hook = h }

\* C1: when the run before this one had no filter and ended without
\* cancellation or exception, and this run is the same call again, this run
\* never enters urlretrieve, never calls on_progress, reports every
\* completion as skipped and, once it has returned, has called on_start and
\* on_completion(skipped=True) for every image of the album, in album order.
C1_SecondRunSkipsAll ==
    ( /\ previous.end = "completed"
      /\ ~Truthy(previous.only)
      /\ only = previous.only )
    =>
    /\ pc \notin {"fetch", "raised"}
    /\ CallsOf("urlretrieve") = {}
    /\ CallsOf("on_progress") = {}
    /\ \A k \in CallsOf("on_completion") : calls[k].skipped /\ ~calls[k].cancelled
    /\ pc = "returned" =>
        /\ Len(calls) = 2 * Len(image_names)
        /\ \A j \in 1..Len(image_names) :
            /\ calls[2 * j - 1].hook = "on_start"
            /\ calls[2 * j].hook = "on_completion"
            /\ calls[2 * j].image = image_names[j]
            /\ calls[2 * j].pos = j

\* C1, witness: a second unfiltered run over an album of at least two images,
\* one of which the first run fetched, has returned
C1_Witness ==
    /\ run = 2
    /\ previous.end = "completed"
    /\ ~Truthy(previous.only)
    /\ only = previous.only
    /\ pc = "returned"
    /\ Len(image_names) >= 2
    /\ Cardinality(disk) >= 2
    /\ Len(calls) = 2 * Len(image_names)

\* C2: a call with cancelled=True is on_completion for the image being
\* fetched, it is the last thing the run does (dowload has returned and the
\* loop did not move on), the image's output file is not on disk, the
\* processed counter is what it was at the image's on_start, and the image
\* has no other on_completion.
C2_CancelEndsRun ==
    \A k \in 1..Len(calls) : calls[k].cancelled =>
        /\ k = Len(calls)
        /\ pc = "returned"
        /\ calls[k].hook = "on_completion"
        /\ ~calls[k].skipped
        /\ calls[k].pos = count
        /\ calls[k].image = image_names[count]
        /\ ~Exists(OutFile(calls[k].image))
        /\ OutFile(calls[k].image) \notin truncated
        /\ \A j \in 1..Len(calls) : calls[j].pos <= count
        /\ { j \in CallsOf("on_completion") : calls[j].pos = count } = {k}
        /\ \E s \in CallsOf("on_start") :
            /\ calls[s].pos = count
            /\ calls[s + 1].hook = "urlretrieve"
            /\ dl_context.processed_images = calls[s].context.processed_images
            /\ calls[k].context.processed_images = calls[s].context.processed_images

\* C2, witness: the first image of two was cancelled after a block of it
\* had been written
C2_Witness ==
    /\ Cancelled
    /\ count = 1
    /\ Len(image_names) = 2
    /\ \E j \in CallsOf("on_progress") : calls[j].pos = 1 /\ calls[j].context.transferred > 0
    /\ image_names[2] # image_names[1]
    /\ ~FilteredOut(only, image_names[2])

\* the number of images whose processing ended as completed or skipped
Ended == Cardinality({ k \in CallsOf("on_completion") : ~calls[k].cancelled })

\* C3: in a run with a non-empty filter, every hook call and every fetch is
\* for an identifier of the filter, the processed counter counts the
\* completed and skipped images of the filter only, every identifier of the
\* filter that the loop has passed got its on_start, and a run that returns
\* without cancellation has called on_start for every identifier of the filter.
C3_FilteredAreInvisible ==
    (Truthy(only) /\ pc \in {"loop", "fetch", "returned"}) =>
        /\ \A k \in 1..Len(calls) : calls[k].image \in only.items
        /\ dl_context.processed_images = Ended
        /\ \A j \in 1..Len(image_names) :
            (j < count /\ image_names[j] \in only.items) =>
                \E k \in CallsOf("on_start") : calls[k].pos = j
        /\ (pc = "returned" /\ ~Cancelled) =>
            \A i \in only.items :
                \E k \in CallsOf("on_start") : calls[k].image = i

\* C3, witness: a filtered run has returned after passing over an image that
\* was not asked for and processing one that was
C3_Witness ==
    /\ Truthy(only)
    /\ pc = "returned"
    /\ ~Cancelled
    /\ Len(image_names) = 2
    /\ image_names[1] \notin only.items
    /\ image_names[2] \in only.items
    /\ CallsOf("urlretrieve") # {}
    /\ dl_context.processed_images = 1

\* C8: when `only` is left at its default None, dowload does not raise at
\* its first line, total_images is the album's image count, and a run that
\* returns without cancellation has processed every image in album order.
C8_DefaultOnlyMeansAll ==
    only.none =>
        /\ ~(pc = "raised" /\ exc \in {"AttributeError", "AssertionError"})
        /\ pc \in {"loop", "fetch", "returned"} =>
            dl_context.total_images = image_count
        /\ (pc = "returned" /\ ~Cancelled) =>
            /\ Cardinality(CallsOf("on_start")) = Len(image_names)
            /\ \A j \in 1..Len(image_names) :
                \E k \in CallsOf("on_start") :
                    calls[k].pos = j /\ calls[k].image = image_names[j]

\* What holds of the code for C8: with the empty set, which is what main
\* passes when no range was asked for, every image is processed in album
\* order and total_images is the album's image count.
EmptyOnlyMeansAll ==
    (only = SetOnly({}) /\ pc \in {"loop", "fetch", "returned"}) =>
        /\ dl_context.total_images = image_count
        /\ \A j \in 1..Len(image_names) :
            j < count => \E k \in CallsOf("on_start") :
                calls[k].pos = j /\ calls[k].image = image_names[j]

(***************************************************************************)
(* Properties of RangeList and main.  What an expression means is stated   *)
(* here from its text, apart from the parser: its terms are the stretches  *)
(* between commas, a numeral is a run of digits read in base ten.          *)
(***************************************************************************)
\* the terms of expression e as pairs of first and last position
TermSpans(e) ==
    { sp \in (1..(Len(e) + 1)) \X (0..Len(e)) :
        /\ sp[2] >= sp[1] - 1
        /\ \A k \in sp[1]..sp[2] : e[k] # ","
        /\ sp[1] = 1 \/ e[sp[1] - 1] = ","
        /\ sp[2] = Len(e) \/ e[sp[2] + 1] = "," }

TermAt(e, sp) == SubSeq(e, sp[1], sp[2])

IsNumeral(t) == t # <<>> /\ \A k \in 1..Len(t) : t[k] \in {"0", "1", "2", "3"}

RECURSIVE Pow10(_)
Pow10(n) == IF n = 0 THEN 1 ELSE 10 * Pow10(n - 1)

RECURSIVE NumeralValue(_)
NumeralValue(t) ==
    IF t = <<>> THEN 0
    ELSE (CASE Head(t) = "0" -> 0 [] Head(t) = "1" -> 1
            [] Head(t) = "2" -> 2 [] Head(t) = "3" -> 3) * Pow10(Len(t) - 1)
         + NumeralValue(Tail(t))

\* t is numeral, dash, numeral
IsRangeTerm(t) ==
    \E k \in 2..(Len(t) - 1) :
        t[k] = "-" /\ IsNumeral(SubSeq(t, 1, k - 1)) /\ IsNumeral(SubSeq(t, k + 1, Len(t)))

Dash(t) == CHOOSE k \in 2..(Len(t) - 1) : t[k] = "-"
Lower(t) == NumeralValue(SubSeq(t, 1, Dash(t) - 1))
Upper(t) == NumeralValue(SubSeq(t, Dash(t) + 1, Len(t)))

\* a single integer N, or a range N-M with N < M
IsValidTerm(t) == IsNumeral(t) \/ (IsRangeTerm(t) /\ Lower(t) < Upper(t))

\* a range N-M with N >= M
IsNonIncreasing(t) == IsRangeTerm(t) /\ Lower(t) >= Upper(t)

\* {N}, or {N, ..., M}
Implied(t) == IF IsNumeral(t) THEN {NumeralValue(t)} ELSE Lower(t)..Upper(t)

IsValidExpression(e) == \A sp \in TermSpans(e) : IsValidTerm(TermAt(e, sp))

ImpliedUnion(e) == UNION { Implied(TermAt(e, sp)) : sp \in TermSpans(e) }

\* RangeList has returned or raised
RangeListOver == mpc \notin {"parse_args", "RangeList"}

\* C4: for an expression whose terms are all single integers or ranges N-M
\* with N < M, RangeList raises nothing, adds only elements of the terms'
\* sets while it runs, and returns exactly the union of the terms' sets (a
\* set: no duplicates, and the same for any order of the terms).
C4_SelectionIsUnion ==
    (images_arg.given /\ IsValidExpression(images_arg.text)) =>
        /\ mpc # "usage_error"
        /\ mpc = "RangeList" => rl_only \subseteq ImpliedUnion(images_arg.text)
        /\ RangeListOver => args_images = ImpliedUnion(images_arg.text)

\* C4, witness: an expression of a range and a single integer, in either
\* order, was parsed to at least three pages
C4_Witness ==
    /\ images_arg.given
    /\ IsValidExpression(images_arg.text)
    /\ mpc = "parsed"
    /\ \E sp \in TermSpans(images_arg.text) : IsRangeTerm(TermAt(images_arg.text, sp))
    /\ \E sp \in TermSpans(images_arg.text) : IsNumeral(TermAt(images_arg.text, sp))
    /\ Cardinality(args_images) >= 3

\* the first term of e that is a range N-M with N >= M
FirstNonIncreasing(e) ==
    CHOOSE sp \in TermSpans(e) :
        /\ IsNonIncreasing(TermAt(e, sp))
        /\ \A other \in TermSpans(e) :
            IsNonIncreasing(TermAt(e, other)) => sp[1] <= other[1]

HasNonIncreasing(e) == \E sp \in TermSpans(e) : IsNonIncreasing(TermAt(e, sp))

\* C5, as claimed: whenever a term of the expression is a range N-M with
\* N >= M, RangeList fails with the invalid-range error, which names a term
\* that is such a range and both of its bounds, whatever the other terms are.
C5_AsClaimed ==
    (images_arg.given /\ HasNonIncreasing(images_arg.text) /\ RangeListOver) =>
        /\ mpc = "usage_error"
        /\ merr.kind = "invalid range"
        /\ IsNonIncreasing(merr.term)
        /\ merr.start = Lower(merr.term)
        /\ merr.end = Upper(merr.term)

\* C5, amended: whenever a term of the expression is a range N-M with
\* N >= M, RangeList raises ValueError and returns no selection; when every
\* term before the first such range is a single integer or a range N-M with
\* N < M, it is the invalid-range error naming that first range and both of
\* its bounds, and otherwise the ValueError belongs to the first term that
\* is neither.
C5_NonIncreasingRejected ==
    (images_arg.given /\ HasNonIncreasing(images_arg.text)) =>
        LET e == images_arg.text
            bad == FirstNonIncreasing(e)
            before == { sp \in TermSpans(e) : sp[1] < bad[1] }
        IN
        /\ mpc \in {"parse_args", "RangeList", "usage_error"}
        /\ args_images = {}
        /\ mpc = "usage_error" =>
            IF \A sp \in before : IsValidTerm(TermAt(e, sp))
            THEN /\ merr.kind = "invalid range"
                 /\ merr.term = TermAt(e, bad)
                 /\ merr.start = Lower(merr.term)
                 /\ merr.end = Upper(merr.term)
                 /\ merr.start >= merr.end
            ELSE \E sp \in before :
                    LET t == TermAt(e, sp) IN
                    /\ ~IsValidTerm(t)
                    /\ \A sooner \in before :
                        sooner[1] < sp[1] => IsValidTerm(TermAt(e, sooner))
                    /\ \/ /\ merr.kind = "invalid range"
                          /\ merr.term = t
                       \/ /\ merr.kind = "invalid literal"
                          /\ \E a \in 1..(Len(t) + 1), b \in 0..Len(t) :
                              merr.term = SubSeq(t, a, b)

\* C5, witness: a range with equal bounds after a valid term was rejected
\* by the invalid-range error
C5_Witness ==
    /\ images_arg.given
    /\ mpc = "usage_error"
    /\ merr.kind = "invalid range"
    /\ merr.start = merr.end
    /\ HasNonIncreasing(images_arg.text)
    /\ Cardinality(TermSpans(images_arg.text)) = 2
    /\ FirstNonIncreasing(images_arg.text)[1] > 1

\* C9, as claimed: RangeList on the empty expression returns the empty
\* selection and raises nothing.
C9_AsClaimed ==
    (images_arg.given /\ images_arg.text = <<>> /\ RangeListOver) =>
        /\ mpc # "usage_error"
        /\ args_images = {}

\* C9, amended: RangeList on the empty expression raises the ValueError of
\* int() on the empty text and returns no selection; a selection that
\* RangeList returns is never empty, and the empty args.images is the
\* default of a command line without -i.
C9_EmptyExpressionRaises ==
    /\ (images_arg.given /\ images_arg.text = <<>>) =>
        /\ mpc \in {"parse_args", "RangeList", "usage_error"}
        /\ mpc = "usage_error" => merr = InvalidLiteral(<<>>)
    /\ (images_arg.given /\ RangeListOver /\ mpc # "usage_error") => args_images # {}
    /\ (~images_arg.given /\ RangeListOver) => args_images = {}

\* C9, witness: RangeList was called on the empty expression and raised
C9_Witness ==
    /\ images_arg.given
    /\ images_arg.text = <<>>
    /\ mpc = "usage_error"

\* C6: once main calls dowload, every selected page p has 1 <= p <= n for
\* the album's n images, and the filter is exactly the identifiers at the
\* selected positions, the first image being page 1.
C6_PagesAreOneBased ==
    mpc = "dowload" =>
        /\ \A p \in args_images : 1 <= p /\ p <= Len(image_names)
        /\ only = SetOnly({ image_names[p] : p \in args_images })

\* What holds of the code for C6: the pages from 1 up select their
\* positions, and page 0, which RangeList and the bounds check let through,
\* selects the last image.
PagesSelectPositions ==
    mpc = "dowload" =>
        /\ \A p \in args_images : 0 <= p /\ p <= Len(image_names)
        /\ only.items =
            { image_names[p] : p \in args_images \ {0} }
            \cup (IF 0 \in args_images THEN {image_names[Len(image_names)]} ELSE {})

\* C7: main ends with the bounds error exactly when a page larger than the
\* album's image count was asked for; the error carries the largest page
\* asked for and the image count, and at that point dowload was not called:
\* no output directory, no file, no fetch, no hook call.
C7_BoundsCheck ==
    /\ mpc \in {"bounds_error", "index_error", "dowload"} =>
        (mpc = "bounds_error" <=> \E p \in args_images : p > Len(image_names))
    /\ mpc = "bounds_error" =>
        /\ merr.kind = "bounds"
        /\ merr.max \in args_images
        /\ \A p \in args_images : p <= merr.max
        /\ merr.count = Len(image_names)
        /\ merr.max > merr.count
        /\ pc = "idle"
        /\ only = NoneOnly
        /\ ~outdir_exists
        /\ disk = {}
        /\ calls = <<>>

\* C7, witness: pages up to one past the end of an album of three images
\* were asked for
C7_Witness ==
    /\ mpc = "bounds_error"
    /\ Len(image_names) = 3
    /\ merr.max = 4 \/ merr.max = 10
    /\ Cardinality(args_images) >= 2

(***************************************************************************)
(* Properties of parse_album_page.                                         *)
(***************************************************************************)
\* the names in the order of the claim
RuleOrder == <<"image_list", "iiif", "title">>

AllFound == \A n \in 1..3 : Found(RuleOrder[n], page)

\* C10: parse_album_page returns only when all three patterns match, and
\* then results holds one group per name; when a pattern does not match it
\* raises ParseError naming the first pattern, in the order image_list,
\* iiif, title, that does not match, and no results are returned; while it
\* runs, results holds the groups of the patterns passed so far.
C10_AllOrNothing ==
    /\ ppc = "parse_album_page" =>
        /\ Len(results) = rule - 1
        /\ \A n \in 1..Len(results) : Found(RuleOrder[n], page)
    /\ ppc \in {"parsed", "constructed", "SyntaxError"} =>
        /\ AllFound
        /\ Len(results) = 3
        /\ \A n \in 1..3 :
            /\ results[n].name = RuleOrder[n]
            /\ \E k \in 1..Len(page) :
                /\ Matches(RuleOrder[n], page[k])
                /\ results[n].group = Group(RuleOrder[n], page[k])
    /\ ppc = "ParseError" =>
        /\ ~AllFound
        /\ results = <<>>
        /\ \E n \in 1..3 :
            /\ perr = RuleOrder[n]
            /\ ~Found(RuleOrder[n], page)
            /\ \A j \in 1..(n - 1) : Found(RuleOrder[j], page)
    /\ ~AllFound => ppc \in {"parse_album_page", "ParseError"}

\* C10, witness: a page that has the image list and the title but no
\* server path was refused
C10_Witness ==
    /\ ppc = "ParseError"
    /\ perr = "iiif"
    /\ Found("image_list", page)
    /\ Found("title", page)
    /\ \E k \in 1..Len(page) : page[k].kind = "server"

(***************************************************************************)
(* Further properties of the download runs.                                *)
(***************************************************************************)
\* the identifiers of the album
Names == { image_names[k] : k \in 1..Len(image_names) }

\* the identifiers of the album are pairwise distinct
Distinct == \A a, b \in 1..Len(image_names) : a # b => image_names[a] # image_names[b]

\* the numeric suffixes of the album are pairwise distinct
DistinctSuffixes ==
    \A a, b \in 1..Len(image_names) : a # b => Num(image_names[a]) # Num(image_names[b])

\* the urlretrieve calls of the run for identifier i
FetchesOf(i) == { k \in CallsOf("urlretrieve") : calls[k].image = i }

\* a first run, into an empty directory, without filter, over pairwise
\* distinct identifiers, that returned without cancellation
UnfilteredFirstRunDone ==
    /\ run = 1
    /\ Distinct
    /\ ~Truthy(only)
    /\ pc = "returned"
    /\ ~Cancelled

\* C11: after a first run without filter over pairwise distinct identifiers
\* that returned without cancellation or exception, every identifier was
\* fetched exactly once and the directory holds exactly one file per
\* identifier, named after its numeric suffix.
C11_OneFilePerImage ==
    UnfilteredFirstRunDone =>
        /\ \A i \in Names : Cardinality(FetchesOf(i)) = 1
        /\ disk = { OutFile(i) : i \in Names }
        /\ Cardinality(disk) = Cardinality(Names)

\* What holds of the code for C11: when the numeric suffixes are pairwise
\* distinct too, every identifier is fetched once and has its own file; in
\* every case each file name was fetched once, for the first identifier of
\* the album that carries its suffix.
OneFilePerSuffix ==
    UnfilteredFirstRunDone =>
        /\ disk = { OutFile(i) : i \in Names }
        /\ truncated = {}
        /\ \A j \in 1..Len(image_names) :
            LET first == \A h \in 1..(j - 1) : Num(image_names[h]) # Num(image_names[j])
            IN Cardinality({ k \in CallsOf("urlretrieve") : calls[k].pos = j })
                = IF first THEN 1 ELSE 0
        /\ DistinctSuffixes =>
            /\ \A i \in Names : Cardinality(FetchesOf(i)) = 1
            /\ Cardinality(disk) = Cardinality(Names)

\* a first unfiltered run over distinct identifiers of distinct suffixes
\* fetched its images
OneFilePerSuffixWitness ==
    /\ UnfilteredFirstRunDone
    /\ DistinctSuffixes
    /\ Len(image_names) >= 2
    /\ Cardinality(disk) = Len(image_names)

\* the calls of the run made for the image at position p of the album
CallsAt(p) == { k \in 1..Len(calls) : calls[k].pos = p }

\* an exception of urlretrieve left dowload
FetchFailed == pc = "raised" /\ exc = "URLError"

\* C12: when a fetch failed, the exception has left dowload at that image:
\* the image's one urlretrieve call is not followed by a completion or by
\* another fetch, the processed counter is what it was at the image's
\* on_start, and no call was made for a later image; and no fetch of a run is
\* left behind without completion while the run goes on.
C12_FetchFailureAborts ==
    /\ FetchFailed =>
        /\ fetch = NoFetch
        /\ calls # <<>>
        /\ Last(calls).hook \in {"urlretrieve", "on_progress"}
        /\ Last(calls).pos = count
        /\ Cardinality(CallsAt(count) \cap CallsOf("urlretrieve")) = 1
        /\ CallsAt(count) \cap CallsOf("on_completion") = {}
        /\ \A k \in 1..Len(calls) : calls[k].pos <= count
        /\ \E s \in CallsAt(count) \cap CallsOf("on_start") :
            /\ \A k \in CallsAt(count) : s <= k
            /\ dl_context.processed_images = calls[s].context.processed_images
    /\ \A k \in CallsOf("urlretrieve") :
        \/ \E c \in CallsOf("on_completion") : c > k /\ calls[c].pos = calls[k].pos
        \/ /\ calls[k].pos = count
           /\ pc = "fetch" \/ FetchFailed
           /\ \A j \in k..Len(calls) : calls[j].pos = count

\* C12, witness: the fetch of the first image of two failed after a block
\* of it had been read, the second image being one the run was to process
C12_Witness ==
    /\ FetchFailed
    /\ count = 1
    /\ Len(image_names) = 2
    /\ Last(calls).hook = "on_progress"
    /\ Last(calls).context.transferred > 0
    /\ ~FilteredOut(only, image_names[2])
    /\ OutFile(image_names[2]) # OutFile(image_names[1])

\* C14: the calls of a run come image by image in album order: on_start
\* opens an image once, after the completion of the image before and before
\* the image's fetch and progress calls; on_progress comes only inside a
\* fetch, between the image's on_start and its on_completion; on_completion
\* closes an image once, as completed, skipped or cancelled, never two of
\* them; and while no fetch has failed every image that was started is
\* completed before the loop goes on or returns.
C14_HookProtocol ==
    /\ calls # <<>> => calls[1].hook = "on_start"
    /\ \A k \in 1..Len(calls) :
        LET c == calls[k] IN
        /\ c.pos \in 1..Len(image_names)
        /\ c.image = image_names[c.pos]
        /\ c.hook \in {"on_start", "urlretrieve", "on_progress", "on_completion"}
        /\ c.hook = "on_start" =>
            /\ \A j \in 1..(k - 1) : calls[j].pos < c.pos
            /\ k > 1 => calls[k - 1].hook = "on_completion"
            /\ c.context.current_image = OutFile(c.image)
            /\ c.context.current_image_url = image_url(iiif, c.image)
        /\ c.hook = "urlretrieve" =>
            /\ k > 1
            /\ calls[k - 1].hook = "on_start"
            /\ calls[k - 1].pos = c.pos
        /\ c.hook = "on_progress" =>
            /\ k > 1
            /\ calls[k - 1].hook \in {"urlretrieve", "on_progress"}
            /\ calls[k - 1].pos = c.pos
        /\ c.hook = "on_completion" =>
            /\ k > 1
            /\ calls[k - 1].hook # "on_completion"
            /\ calls[k - 1].pos = c.pos
            /\ ~(c.skipped /\ c.cancelled)
            /\ c.skipped <=> calls[k - 1].hook = "on_start"
        /\ c.hook # "on_completion" => ~c.skipped /\ ~c.cancelled
    /\ pc \in {"loop", "returned"} =>
        \/ calls = <<>>
        \/ /\ Last(calls).hook = "on_completion"
           /\ Last(calls).pos < count \/ Last(calls).cancelled
    /\ pc = "fetch" =>
        /\ calls # <<>>
        /\ Last(calls).hook \in {"urlretrieve", "on_progress"}
        /\ Last(calls).pos = count
    /\ Distinct =>
        \A j, k \in CallsOf("on_start") : j # k => calls[j].image # calls[k].image

\* C14, witness: a second run has ended with its first image skipped and
\* its second image, which the first run did not complete, cancelled after a
\* block was reported
C14_Witness ==
    /\ run = 2
    /\ pc = "returned"
    /\ Len(image_names) = 2
    /\ Cardinality(CallsOf("on_start")) = 2
    /\ \E b, c \in CallsOf("on_completion") :
        /\ calls[b].pos = 1 /\ calls[b].skipped
        /\ calls[c].pos = 2 /\ calls[c].cancelled
        /\ calls[c - 1].hook = "on_progress"
        /\ calls[c - 1].context.transferred > 0

\* the number of images the run is to process: the size of the filter when
\* there is one, the size of the album otherwise
Selected == IF only.items # {} THEN Cardinality(only.items) ELSE Len(image_names)

\* C15: in a run over pairwise distinct identifiers whose filter is a set of
\* identifiers of the album, total_images is the number of selected images
\* and at every call 0 <= processed_images <= total_images; at the
\* on_completion that ends the k-th processed image as completed or skipped
\* processed_images is k; and when the run returns without cancellation
\* processed_images is total_images.
C15_ProcessedCounter ==
    (Distinct /\ AssertOutcome(only) = "ok" /\ pc \in {"loop", "fetch", "returned", "raised"}) =>
        /\ dl_context.total_images = Selected
        /\ dl_context.processed_images \in 0..dl_context.total_images
        /\ \A k \in 1..Len(calls) :
            /\ calls[k].context.total_images = Selected
            /\ calls[k].context.processed_images \in 0..Selected
            /\ (calls[k].hook = "on_completion" /\ ~calls[k].cancelled) =>
                calls[k].context.processed_images
                    = Cardinality({ s \in CallsOf("on_start") : s < k })
        /\ (pc = "returned" /\ ~Cancelled) =>
            dl_context.processed_images = dl_context.total_images

\* C15, witness: a run filtered to the second of two images has returned
\* after fetching it
C15_Witness ==
    /\ Distinct
    /\ Len(image_names) = 2
    /\ only.items = {image_names[2]}
    /\ pc = "returned"
    /\ ~Cancelled
    /\ dl_context.processed_images = 1
    /\ dl_context.total_images = 1
    /\ CallsOf("urlretrieve") # {}

\* what call k added to the per-image counter `transferred`: an on_progress
\* call comes with the counter raised from what the call before it saw
Added(k) ==
    IF calls[k].hook = "on_progress"
    THEN calls[k].context.transferred - calls[k - 1].context.transferred
    ELSE 0

\* the sum of what the first k calls added
RECURSIVE SumAdded(_)
SumAdded(k) == IF k = 0 THEN 0 ELSE SumAdded(k - 1) + Added(k)

\* C16: at every on_start `transferred` is 0; from one call of a run to the
\* next `total_transferred` never decreases, an on_start finding it where the
\* call before left it; and at every call `total_transferred` is the sum of
\* the amounts added to `transferred` so far in the run, so that
\* `transferred` <= `total_transferred`.
C16_ByteCounters ==
    /\ \A k \in 1..Len(calls) :
        LET ctx == calls[k].context IN
        /\ calls[k].hook = "on_start" => ctx.transferred = 0
        /\ Added(k) >= 0
        /\ ctx.total_transferred = SumAdded(k)
        /\ 0 <= ctx.transferred /\ ctx.transferred <= ctx.total_transferred
        /\ k > 1 =>
            /\ calls[k - 1].context.total_transferred <= ctx.total_transferred
            /\ calls[k].hook # "on_progress" =>
                calls[k - 1].context.total_transferred = ctx.total_transferred
    /\ pc \in {"loop", "fetch", "returned", "raised"} =>
        /\ dl_context.total_transferred = SumAdded(Len(calls))
        /\ dl_context.transferred <= dl_context.total_transferred

\* C16, witness: the second image of a run is being fetched after the first
\* one transferred bytes, and has transferred fewer bytes than the run
C16_Witness ==
    /\ pc = "fetch"
    /\ \E s \in CallsOf("on_start") :
        /\ calls[s].pos = 2
        /\ calls[s].context.transferred = 0
        /\ calls[s].context.total_transferred > 0
    /\ Last(calls).hook = "on_progress"
    /\ Last(calls).context.transferred > 0
    /\ Last(calls).context.transferred < Last(calls).context.total_transferred

\* C18: when a run is over, however it ended, no file of the output
\* directory is one that a fetch left incomplete, and no run reports as
\* skipped an image whose file is incomplete.
C18_NoTruncatedFile ==
    /\ pc \in {"returned", "raised"} => truncated = {}
    /\ \A k \in CallsOf("on_completion") :
        calls[k].skipped => OutFile(calls[k].image) \notin truncated

\* What holds of the code for C18: the files a first run leaves behind when
\* it returns, cancelled or not, are whole; an incomplete file is left only
\* by a fetch whose exception left dowload, and it is the file of the image
\* that was being fetched.
ReturnLeavesWholeFiles ==
    /\ truncated \subseteq disk
    /\ (run = 1 /\ pc = "returned") => truncated = {}
    /\ (run = 1 /\ pc = "raised") =>
        /\ truncated # {} => FetchFailed
        /\ truncated \subseteq { OutFile(image_names[k]) : k \in {count} \cap 1..Len(image_names) }

\* a first run was cancelled while the file of its second image was being
\* written, and left one whole file
ReturnLeavesWholeFilesWitness ==
    /\ run = 1
    /\ Cancelled
    /\ count = 2
    /\ Last(calls).context.transferred > 0
    /\ Cardinality(disk) = 1

(***************************************************************************)
(* Further properties of the constructor and of main.                      *)
(***************************************************************************)
\* parsed["title"]: group 1 of the title pattern
ParsedTitle == results[Result(results, "title")].group.text

\* C13: the title a constructed downloader stores has the length of the
\* parsed title, carries "_" where the parsed title carries "/" and the
\* parsed title's character everywhere else, and so carries no "/".
C13_TitleSanitized ==
    ppc = "constructed" =>
        /\ Len(title) = Len(ParsedTitle)
        /\ \A k \in 1..Len(ParsedTitle) :
            title[k] = IF ParsedTitle[k] = "/" THEN "_" ELSE ParsedTitle[k]
        /\ \A k \in 1..Len(title) : title[k] # "/"

\* C13, witness: a downloader was built from a title with two "/" and
\* another character
C13_Witness ==
    /\ ppc = "constructed"
    /\ Cardinality({ k \in 1..Len(ParsedTitle) : ParsedTitle[k] = "/" }) = 2
    /\ \E k \in 1..Len(ParsedTitle) : ParsedTitle[k] # "/" /\ title[k] = ParsedTitle[k]
    /\ title # ParsedTitle

\* the album was opened: the constructor has filled the downloader
AlbumOpened == iiif # <<>>

\* something was done for an image: a hook was called or a fetch started
ImageActivity == calls # <<>> \/ disk # {} \/ pc \in {"loop", "fetch", "returned"}

\* C17: while the command line is parsed and when RangeList has rejected
\* the range expression, the album has not been opened and nothing was done
\* for an image; the album is opened only for an expression whose terms are
\* all well-formed; and when the output directory could not be created,
\* dowload was left before any hook call and before any fetch.
C17_PreflightOrder ==
    /\ mpc \in {"parse_args", "RangeList", "usage_error"} =>
        /\ ~AlbumOpened
        /\ image_names = <<>>
        /\ pc = "idle"
        /\ ~ImageActivity
    /\ merr.kind \in {"invalid literal", "invalid range"} => mpc = "usage_error"
    /\ (AlbumOpened \/ ImageActivity) =>
        /\ mpc \in {"constructed", "bounds_error", "index_error", "dowload"}
        /\ images_arg.given => IsValidExpression(images_arg.text)
    /\ ImageActivity => mpc = "dowload"
    /\ (pc = "raised" /\ exc = "OSError") =>
        /\ mpc = "dowload"
        /\ ~outdir_exists
        /\ calls = <<>>
        /\ disk = {}
        /\ count = 0
        /\ fetch = NoFetch
        /\ ~ImageActivity

\* C17, witness: main accepted a range, opened an album of three images and
\* called dowload, which could not create the output directory
C17_Witness ==
    /\ images_arg.given
    /\ args_images # {}
    /\ Len(image_names) = 3
    /\ Truthy(only)
    /\ pc = "raised"
    /\ exc = "OSError"

\* a range expression with a non-increasing range after a well-formed term
\* was rejected
RangeRejectedWitness ==
    /\ mpc = "usage_error"
    /\ merr.kind = "invalid range"
    /\ rl_only # {}

====
